---- MODULE Spec2Model ----
\* Model of the Latvian Informatics Olympiad task loader
\* (cmscontrib/loaders/lio.py): LioTaskLoader.parse_point_file and
\* LioTaskLoader.get_task.  Text is modelled as sequences of
\* one-character strings so that splitting, integer parsing, pattern
\* matching and formatting are computed rather than assumed.
EXTENDS Integers, Sequences, FiniteSets, TLC

\* ------------------------------------------------------------------
\* Text helpers (Python str / int / format behaviour used by the loader)
\* ------------------------------------------------------------------

\* A character is a one-character string; a character beyond U+00FF is
\* written as the string "U+XXXX" naming its code point.

\* the digits that str() and format() produce
DigitChars == <<"0", "1", "2", "3", "4", "5", "6", "7", "8", "9">>

\* the other decimal digits that int() and the pattern \d accept (the
\* Unicode category Nd): one row per script, from its zero to its nine
OtherDigitRows ==
  <<
    <<"U+0660", "U+0661", "U+0662", "U+0663", "U+0664",
      "U+0665", "U+0666", "U+0667", "U+0668", "U+0669">>,
    <<"U+06F0", "U+06F1", "U+06F2", "U+06F3", "U+06F4",
      "U+06F5", "U+06F6", "U+06F7", "U+06F8", "U+06F9">>,
    <<"U+07C0", "U+07C1", "U+07C2", "U+07C3", "U+07C4",
      "U+07C5", "U+07C6", "U+07C7", "U+07C8", "U+07C9">>,
    <<"U+0966", "U+0967", "U+0968", "U+0969", "U+096A",
      "U+096B", "U+096C", "U+096D", "U+096E", "U+096F">>,
    <<"U+09E6", "U+09E7", "U+09E8", "U+09E9", "U+09EA",
      "U+09EB", "U+09EC", "U+09ED", "U+09EE", "U+09EF">>,
    <<"U+0A66", "U+0A67", "U+0A68", "U+0A69", "U+0A6A",
      "U+0A6B", "U+0A6C", "U+0A6D", "U+0A6E", "U+0A6F">>,
    <<"U+0AE6", "U+0AE7", "U+0AE8", "U+0AE9", "U+0AEA",
      "U+0AEB", "U+0AEC", "U+0AED", "U+0AEE", "U+0AEF">>,
    <<"U+0B66", "U+0B67", "U+0B68", "U+0B69", "U+0B6A",
      "U+0B6B", "U+0B6C", "U+0B6D", "U+0B6E", "U+0B6F">>,
    <<"U+0BE6", "U+0BE7", "U+0BE8", "U+0BE9", "U+0BEA",
      "U+0BEB", "U+0BEC", "U+0BED", "U+0BEE", "U+0BEF">>,
    <<"U+0C66", "U+0C67", "U+0C68", "U+0C69", "U+0C6A",
      "U+0C6B", "U+0C6C", "U+0C6D", "U+0C6E", "U+0C6F">>,
    <<"U+0CE6", "U+0CE7", "U+0CE8", "U+0CE9", "U+0CEA",
      "U+0CEB", "U+0CEC", "U+0CED", "U+0CEE", "U+0CEF">>,
    <<"U+0D66", "U+0D67", "U+0D68", "U+0D69", "U+0D6A",
      "U+0D6B", "U+0D6C", "U+0D6D", "U+0D6E", "U+0D6F">>,
    <<"U+0DE6", "U+0DE7", "U+0DE8", "U+0DE9", "U+0DEA",
      "U+0DEB", "U+0DEC", "U+0DED", "U+0DEE", "U+0DEF">>,
    <<"U+0E50", "U+0E51", "U+0E52", "U+0E53", "U+0E54",
      "U+0E55", "U+0E56", "U+0E57", "U+0E58", "U+0E59">>,
    <<"U+0ED0", "U+0ED1", "U+0ED2", "U+0ED3", "U+0ED4",
      "U+0ED5", "U+0ED6", "U+0ED7", "U+0ED8", "U+0ED9">>,
    <<"U+0F20", "U+0F21", "U+0F22", "U+0F23", "U+0F24",
      "U+0F25", "U+0F26", "U+0F27", "U+0F28", "U+0F29">>,
    <<"U+1040", "U+1041", "U+1042", "U+1043", "U+1044",
      "U+1045", "U+1046", "U+1047", "U+1048", "U+1049">>,
    <<"U+1090", "U+1091", "U+1092", "U+1093", "U+1094",
      "U+1095", "U+1096", "U+1097", "U+1098", "U+1099">>,
    <<"U+17E0", "U+17E1", "U+17E2", "U+17E3", "U+17E4",
      "U+17E5", "U+17E6", "U+17E7", "U+17E8", "U+17E9">>,
    <<"U+1810", "U+1811", "U+1812", "U+1813", "U+1814",
      "U+1815", "U+1816", "U+1817", "U+1818", "U+1819">>,
    <<"U+1946", "U+1947", "U+1948", "U+1949", "U+194A",
      "U+194B", "U+194C", "U+194D", "U+194E", "U+194F">>,
    <<"U+19D0", "U+19D1", "U+19D2", "U+19D3", "U+19D4",
      "U+19D5", "U+19D6", "U+19D7", "U+19D8", "U+19D9">>,
    <<"U+1A80", "U+1A81", "U+1A82", "U+1A83", "U+1A84",
      "U+1A85", "U+1A86", "U+1A87", "U+1A88", "U+1A89">>,
    <<"U+1A90", "U+1A91", "U+1A92", "U+1A93", "U+1A94",
      "U+1A95", "U+1A96", "U+1A97", "U+1A98", "U+1A99">>,
    <<"U+1B50", "U+1B51", "U+1B52", "U+1B53", "U+1B54",
      "U+1B55", "U+1B56", "U+1B57", "U+1B58", "U+1B59">>,
    <<"U+1BB0", "U+1BB1", "U+1BB2", "U+1BB3", "U+1BB4",
      "U+1BB5", "U+1BB6", "U+1BB7", "U+1BB8", "U+1BB9">>,
    <<"U+1C40", "U+1C41", "U+1C42", "U+1C43", "U+1C44",
      "U+1C45", "U+1C46", "U+1C47", "U+1C48", "U+1C49">>,
    <<"U+1C50", "U+1C51", "U+1C52", "U+1C53", "U+1C54",
      "U+1C55", "U+1C56", "U+1C57", "U+1C58", "U+1C59">>,
    <<"U+A620", "U+A621", "U+A622", "U+A623", "U+A624",
      "U+A625", "U+A626", "U+A627", "U+A628", "U+A629">>,
    <<"U+A8D0", "U+A8D1", "U+A8D2", "U+A8D3", "U+A8D4",
      "U+A8D5", "U+A8D6", "U+A8D7", "U+A8D8", "U+A8D9">>,
    <<"U+A900", "U+A901", "U+A902", "U+A903", "U+A904",
      "U+A905", "U+A906", "U+A907", "U+A908", "U+A909">>,
    <<"U+A9D0", "U+A9D1", "U+A9D2", "U+A9D3", "U+A9D4",
      "U+A9D5", "U+A9D6", "U+A9D7", "U+A9D8", "U+A9D9">>,
    <<"U+A9F0", "U+A9F1", "U+A9F2", "U+A9F3", "U+A9F4",
      "U+A9F5", "U+A9F6", "U+A9F7", "U+A9F8", "U+A9F9">>,
    <<"U+AA50", "U+AA51", "U+AA52", "U+AA53", "U+AA54",
      "U+AA55", "U+AA56", "U+AA57", "U+AA58", "U+AA59">>,
    <<"U+ABF0", "U+ABF1", "U+ABF2", "U+ABF3", "U+ABF4",
      "U+ABF5", "U+ABF6", "U+ABF7", "U+ABF8", "U+ABF9">>,
    <<"U+FF10", "U+FF11", "U+FF12", "U+FF13", "U+FF14",
      "U+FF15", "U+FF16", "U+FF17", "U+FF18", "U+FF19">>,
    <<"U+104A0", "U+104A1", "U+104A2", "U+104A3", "U+104A4",
      "U+104A5", "U+104A6", "U+104A7", "U+104A8", "U+104A9">>,
    <<"U+10D30", "U+10D31", "U+10D32", "U+10D33", "U+10D34",
      "U+10D35", "U+10D36", "U+10D37", "U+10D38", "U+10D39">>,
    <<"U+11066", "U+11067", "U+11068", "U+11069", "U+1106A",
      "U+1106B", "U+1106C", "U+1106D", "U+1106E", "U+1106F">>,
    <<"U+110F0", "U+110F1", "U+110F2", "U+110F3", "U+110F4",
      "U+110F5", "U+110F6", "U+110F7", "U+110F8", "U+110F9">>,
    <<"U+11136", "U+11137", "U+11138", "U+11139", "U+1113A",
      "U+1113B", "U+1113C", "U+1113D", "U+1113E", "U+1113F">>,
    <<"U+111D0", "U+111D1", "U+111D2", "U+111D3", "U+111D4",
      "U+111D5", "U+111D6", "U+111D7", "U+111D8", "U+111D9">>,
    <<"U+112F0", "U+112F1", "U+112F2", "U+112F3", "U+112F4",
      "U+112F5", "U+112F6", "U+112F7", "U+112F8", "U+112F9">>,
    <<"U+11450", "U+11451", "U+11452", "U+11453", "U+11454",
      "U+11455", "U+11456", "U+11457", "U+11458", "U+11459">>,
    <<"U+114D0", "U+114D1", "U+114D2", "U+114D3", "U+114D4",
      "U+114D5", "U+114D6", "U+114D7", "U+114D8", "U+114D9">>,
    <<"U+11650", "U+11651", "U+11652", "U+11653", "U+11654",
      "U+11655", "U+11656", "U+11657", "U+11658", "U+11659">>,
    <<"U+116C0", "U+116C1", "U+116C2", "U+116C3", "U+116C4",
      "U+116C5", "U+116C6", "U+116C7", "U+116C8", "U+116C9">>,
    <<"U+11730", "U+11731", "U+11732", "U+11733", "U+11734",
      "U+11735", "U+11736", "U+11737", "U+11738", "U+11739">>,
    <<"U+118E0", "U+118E1", "U+118E2", "U+118E3", "U+118E4",
      "U+118E5", "U+118E6", "U+118E7", "U+118E8", "U+118E9">>,
    <<"U+11950", "U+11951", "U+11952", "U+11953", "U+11954",
      "U+11955", "U+11956", "U+11957", "U+11958", "U+11959">>,
    <<"U+11C50", "U+11C51", "U+11C52", "U+11C53", "U+11C54",
      "U+11C55", "U+11C56", "U+11C57", "U+11C58", "U+11C59">>,
    <<"U+11D50", "U+11D51", "U+11D52", "U+11D53", "U+11D54",
      "U+11D55", "U+11D56", "U+11D57", "U+11D58", "U+11D59">>,
    <<"U+11DA0", "U+11DA1", "U+11DA2", "U+11DA3", "U+11DA4",
      "U+11DA5", "U+11DA6", "U+11DA7", "U+11DA8", "U+11DA9">>,
    <<"U+16A60", "U+16A61", "U+16A62", "U+16A63", "U+16A64",
      "U+16A65", "U+16A66", "U+16A67", "U+16A68", "U+16A69">>,
    <<"U+16AC0", "U+16AC1", "U+16AC2", "U+16AC3", "U+16AC4",
      "U+16AC5", "U+16AC6", "U+16AC7", "U+16AC8", "U+16AC9">>,
    <<"U+16B50", "U+16B51", "U+16B52", "U+16B53", "U+16B54",
      "U+16B55", "U+16B56", "U+16B57", "U+16B58", "U+16B59">>,
    <<"U+1D7CE", "U+1D7CF", "U+1D7D0", "U+1D7D1", "U+1D7D2",
      "U+1D7D3", "U+1D7D4", "U+1D7D5", "U+1D7D6", "U+1D7D7">>,
    <<"U+1D7D8", "U+1D7D9", "U+1D7DA", "U+1D7DB", "U+1D7DC",
      "U+1D7DD", "U+1D7DE", "U+1D7DF", "U+1D7E0", "U+1D7E1">>,
    <<"U+1D7E2", "U+1D7E3", "U+1D7E4", "U+1D7E5", "U+1D7E6",
      "U+1D7E7", "U+1D7E8", "U+1D7E9", "U+1D7EA", "U+1D7EB">>,
    <<"U+1D7EC", "U+1D7ED", "U+1D7EE", "U+1D7EF", "U+1D7F0",
      "U+1D7F1", "U+1D7F2", "U+1D7F3", "U+1D7F4", "U+1D7F5">>,
    <<"U+1D7F6", "U+1D7F7", "U+1D7F8", "U+1D7F9", "U+1D7FA",
      "U+1D7FB", "U+1D7FC", "U+1D7FD", "U+1D7FE", "U+1D7FF">>,
    <<"U+1E140", "U+1E141", "U+1E142", "U+1E143", "U+1E144",
      "U+1E145", "U+1E146", "U+1E147", "U+1E148", "U+1E149">>,
    <<"U+1E2F0", "U+1E2F1", "U+1E2F2", "U+1E2F3", "U+1E2F4",
      "U+1E2F5", "U+1E2F6", "U+1E2F7", "U+1E2F8", "U+1E2F9">>,
    <<"U+1E950", "U+1E951", "U+1E952", "U+1E953", "U+1E954",
      "U+1E955", "U+1E956", "U+1E957", "U+1E958", "U+1E959">>,
    <<"U+1FBF0", "U+1FBF1", "U+1FBF2", "U+1FBF3", "U+1FBF4",
      "U+1FBF5", "U+1FBF6", "U+1FBF7", "U+1FBF8", "U+1FBF9">>
  >>

OtherDigits ==
  {OtherDigitRows[r][i] : r \in 1..Len(OtherDigitRows), i \in 1..10}

LowerChars ==
  <<"a", "b", "c", "d", "e", "f", "g", "h", "i", "j", "k", "l", "m",
    "n", "o", "p", "q", "r", "s", "t", "u", "v", "w", "x", "y", "z">>

IsDigit(c) == (\E i \in 1..10 : DigitChars[i] = c) \/ c \in OtherDigits

IsLower(c) == \E i \in 1..26 : LowerChars[i] = c

DigitVal(c) ==
  IF \E i \in 1..10 : DigitChars[i] = c
  THEN (CHOOSE i \in 1..10 : DigitChars[i] = c) - 1
  ELSE (CHOOSE i \in 1..10 :
          \E r \in 1..Len(OtherDigitRows) : OtherDigitRows[r][i] = c) - 1

CharCode(c) == CHOOSE i \in 1..26 : LowerChars[i] = c

\* the characters str.split() separates fields at (str.isspace)
SpaceChars ==
  {"\t", "\n", "", "\f", "\r", "", "", "", "", " ",
   "", " ",
   "U+1680", "U+2000", "U+2001", "U+2002", "U+2003", "U+2004",
   "U+2005", "U+2006", "U+2007", "U+2008", "U+2009", "U+200A",
   "U+2028", "U+2029", "U+202F", "U+205F", "U+3000"}

IsSpace(c) == c \in SpaceChars

\* str.replace("-", " ")
ReplaceDash(s) == [i \in 1..Len(s) |-> IF s[i] = "-" THEN " " ELSE s[i]]

\* the k-th smallest element of a set of positions
KthOf(S, k) == CHOOSE i \in S : Cardinality({j \in S : j < i}) = k - 1

\* positions where a maximal run of non-whitespace characters starts
FieldStarts(s) ==
  {i \in 1..Len(s) : ~IsSpace(s[i]) /\ (i = 1 \/ IsSpace(s[i - 1]))}

\* positions where such a run ends
FieldEnds(s) ==
  {i \in 1..Len(s) : ~IsSpace(s[i]) /\ (i = Len(s) \/ IsSpace(s[i + 1]))}

\* str.split(): the maximal runs of non-whitespace characters, in order
Split(s) ==
  [k \in 1..Cardinality(FieldStarts(s)) |->
     SubSeq(s, KthOf(FieldStarts(s), k), KthOf(FieldEnds(s), k))]

\* a run of digits without its leading zeros
StripZeros(d) ==
  LET nz == {k \in 1..Len(d) : DigitVal(d[k]) # 0}
  IN IF nz = {} THEN <<>> ELSE SubSeq(d, KthOf(nz, 1), Len(d))

\* value of a run of decimal digits that starts with no zero
RECURSIVE SignificantValue(_)
SignificantValue(d) ==
  IF d = <<>> THEN 0
  ELSE 10 * SignificantValue(SubSeq(d, 1, Len(d) - 1)) + DigitVal(d[Len(d)])

\* value of a run of decimal digits
DigitsValue(d) == SignificantValue(StripZeros(d))

\* sys.get_int_max_str_digits(): int() refuses a string of more digits,
\* leading zeros counted, sign and underscores not
MaxStrDigits == 4300

\* int(token): optional sign, then digits that may be separated by
\* single underscores, at most MaxStrDigits digits; anything else is a
\* ValueError
IntBody(t) ==
  IF t # <<>> /\ t[1] \in {"+", "-"} THEN SubSeq(t, 2, Len(t)) ELSE t

IntValid(t) ==
  LET b == IntBody(t) IN
    /\ b # <<>>
    /\ IsDigit(b[1])
    /\ IsDigit(b[Len(b)])
    /\ \A i \in 1..Len(b) : IsDigit(b[i]) \/ b[i] = "_"
    /\ \A i \in 1..(Len(b) - 1) : ~(b[i] = "_" /\ b[i + 1] = "_")
    /\ Len(SelectSeq(b, IsDigit)) <= MaxStrDigits

IntOf(t) ==
  LET b == IntBody(t)
      d == SelectSeq(b, IsDigit)
      v == DigitsValue(d)
  IN IF t[1] = "-" THEN 0 - v ELSE v

\* str(n) for n >= 0
RECURSIVE Str(_)
Str(n) ==
  IF n < 10 THEN <<DigitChars[n + 1]>>
  ELSE Str(n \div 10) \o <<DigitChars[(n % 10) + 1]>>

\* format(n, "0<width>") for n >= 0: left-pad with zeros to width
RECURSIVE ZeroPad(_, _)
ZeroPad(s, width) ==
  IF Len(s) >= width THEN s ELSE ZeroPad(<<"0">> \o s, width)

FormatZero(n, width) == ZeroPad(Str(n), width)

\* s.startswith(p)
StartsWith(s, p) == Len(p) <= Len(s) /\ SubSeq(s, 1, Len(p)) = p

\* lexicographic order of lower-case labels (Python str comparison)
RECURSIVE LexLess(_, _)
LexLess(a, b) ==
  IF a = <<>> THEN b # <<>>
  ELSE IF b = <<>> THEN FALSE
  ELSE IF a[1] = b[1] THEN LexLess(Tail(a), Tail(b))
  ELSE CharCode(a[1]) < CharCode(b[1])

\* ------------------------------------------------------------------
\* parse_point_file
\* ------------------------------------------------------------------

EmptyMap == [g \in {} |-> 0]

\* sum of the values whose keys lie in lo..hi (halving keeps the
\* evaluation shallow for large dictionaries)
RECURSIVE SumBetween(_, _, _)
SumBetween(m, lo, hi) ==
  IF lo > hi THEN 0
  ELSE IF lo = hi THEN (IF lo \in DOMAIN m THEN m[lo] ELSE 0)
  ELSE LET mid == (lo + hi) \div 2
       IN SumBetween(m, lo, mid) + SumBetween(m, mid + 1, hi)

\* sum(points_per_group.values())
SumValues(m) ==
  IF DOMAIN m = {} THEN 0
  ELSE LET lo == CHOOSE x \in DOMAIN m : \A y \in DOMAIN m : x <= y
           hi == CHOOSE x \in DOMAIN m : \A y \in DOMAIN m : y <= x
       IN SumBetween(m, lo, hi)

\* for group in range(a, b+1): duplicate check, then assignment; the
\* loop stops at the first group of the range that is already assigned
AssignRange(m, a, b, points) ==
  LET dups == {g \in a..b : g \in DOMAIN m} IN
    IF dups = {}
    THEN [err |-> "", map |-> m @@ [g \in a..b |-> points]]
    ELSE LET d == CHOOSE g \in dups : \A h \in dups : g <= h
         IN [err |-> "DuplicatedGroups",
             map |-> m @@ [g \in a..(d - 1) |-> points]]

\* variant: a line of two fields is taken as one group and its points
ParseLineSingle(m, line) ==
  LET vars == Split(ReplaceDash(line)) IN
    IF Len(vars) < 1 THEN [err |-> "IndexError", map |-> m]
    ELSE IF ~IntValid(vars[1]) THEN [err |-> "ValueError", map |-> m]
    ELSE IF Len(vars) < 2 THEN [err |-> "IndexError", map |-> m]
    ELSE IF ~IntValid(vars[2]) THEN [err |-> "ValueError", map |-> m]
    ELSE IF Len(vars) < 3
    THEN AssignRange(m, IntOf(vars[1]), IntOf(vars[1]), IntOf(vars[2]))
    ELSE IF ~IntValid(vars[3]) THEN [err |-> "ValueError", map |-> m]
    ELSE AssignRange(m, IntOf(vars[1]), IntOf(vars[2]), IntOf(vars[3]))

\* the body of the loop over the lines of the point file
ParseLine(m, line) ==
  LET vars == Split(ReplaceDash(line)) IN
    IF Len(vars) < 1 THEN [err |-> "IndexError", map |-> m]
    ELSE IF ~IntValid(vars[1]) THEN [err |-> "ValueError", map |-> m]
    ELSE IF Len(vars) < 2 THEN [err |-> "IndexError", map |-> m]
    ELSE IF ~IntValid(vars[2]) THEN [err |-> "ValueError", map |-> m]
    ELSE IF Len(vars) < 3 THEN [err |-> "IndexError", map |-> m]
    ELSE IF ~IntValid(vars[3]) THEN [err |-> "ValueError", map |-> m]
    ELSE AssignRange(m, IntOf(vars[1]), IntOf(vars[2]), IntOf(vars[3]))

RECURSIVE ParseLines(_, _, _)
ParseLines(m, content, i) ==
  IF i > Len(content) THEN [err |-> "", map |-> m]
  ELSE LET r == ParseLine(m, content[i])
       IN IF r.err # "" THEN r ELSE ParseLines(r.map, content, i + 1)

\* variant: the membership loop stops one group early
MissingGroupShort(m) ==
  \E g \in 0..(Cardinality(DOMAIN m) - 2) : g \notin DOMAIN m

\* for group in range(len(points_per_group)): membership check
MissingGroup(m) ==
  \E g \in 0..(Cardinality(DOMAIN m) - 1) : g \notin DOMAIN m

\* parse_point_file: err = "" means the mapping was returned; otherwise
\* err is the exception and map the dictionary built when it was raised
ParsePointFile(content) ==
  LET r == ParseLines(EmptyMap, content, 1) IN
    IF r.err # "" THEN r
    ELSE IF MissingGroup(r.map)
         THEN [err |-> "MissingGroup", map |-> r.map]
         ELSE IF SumValues(r.map) # 100
              THEN [err |-> "PointSum", map |-> r.map]
              ELSE r

\* ------------------------------------------------------------------
\* Archive member names: re.compile(r"\.(i|o)(\d+)([a-z]*)$").search
\* ------------------------------------------------------------------

\* variant: only a leading separator is noticed
HasSeparatorLeading(name) == name # <<>> /\ name[1] \in {"/", "\\"}

HasSeparator(name) == \E i \in 1..Len(name) : name[i] \in {"/", "\\"}

\* length of the maximal run of digits at the start of r
DigitRun(r) ==
  LET nd == {k \in 1..Len(r) : ~IsDigit(r[k])}
  IN IF nd = {} THEN Len(r) ELSE KthOf(nd, 1) - 1

\* "$": the end of the name, or just before a newline that ends it
EndAt(r) == IF r # <<>> /\ r[Len(r)] = "\n" THEN Len(r) - 1 ELSE Len(r)

\* the lower-case run after d digits reaches the end: the whole rest,
\* or (when the rest ends with a newline) the rest without the newline
LowerToEnd(r, d) ==
  \/ \A k \in (d + 1)..Len(r) : IsLower(r[k])
  \/ \A k \in (d + 1)..EndAt(r) : IsLower(r[k])

\* the pattern matches at position p: ".", "i" or "o", one or more
\* digits, zero or more lower-case letters, "$"
MatchesAt(name, p) ==
  /\ p + 1 <= Len(name)
  /\ name[p] = "."
  /\ name[p + 1] \in {"i", "o"}
  /\ LET r == SubSeq(name, p + 2, Len(name))
         d == DigitRun(r)
     IN /\ d >= 1
        /\ LowerToEnd(r, d)

Matches(name) == \E p \in 1..Len(name) : MatchesAt(name, p)

\* where the leftmost match starts
FirstMatch(name) ==
  CHOOSE q \in 1..Len(name) :
    /\ MatchesAt(name, q)
    /\ \A q2 \in 1..(q - 1) : ~MatchesAt(name, q2)

\* lines 205-207 on a match whose digits and letters are digits and
\* letters: err is the exception of int(match.group(2)) or "", and group
\* is -1 when int() raised
ReadGroups(is_input, digits, letters) ==
  IF IntValid(digits)
  THEN [err |-> "", is_input |-> is_input, group |-> IntOf(digits),
        test_in_group |-> letters]
  ELSE [err |-> "ValueError", is_input |-> is_input, group |-> -1,
        test_in_group |-> letters]

\* the match at position p, with d digits
GroupsAt(name, p, d) ==
  ReadGroups(name[p + 1] = "i",
             SubSeq(name, p + 2, p + 1 + d),
             SubSeq(name, p + 2 + d,
                    p + 1 + EndAt(SubSeq(name, p + 2, Len(name)))))

\* groups 1..3 of the leftmost match
MatchGroups(name) ==
  GroupsAt(name, FirstMatch(name),
           DigitRun(SubSeq(name, FirstMatch(name) + 2, Len(name))))

NoFile == <<>>

EmptyFiles == [b \in {} |-> [input |-> NoFile, output |-> NoFile]]

\* test_files[group][test_in_group]['input' | 'output'] = test_filename
PutTestFile(files, m, name) ==
  [x \in (DOMAIN files) \cup {<<m.group, m.test_in_group>>} |->
     IF x # <<m.group, m.test_in_group>> THEN files[x]
     ELSE IF x \in DOMAIN files
          THEN IF m.is_input THEN [files[x] EXCEPT !.input = name]
               ELSE [files[x] EXCEPT !.output = name]
          ELSE IF m.is_input THEN [input |-> name, output |-> NoFile]
               ELSE [input |-> NoFile, output |-> name]]

\* lines 205-215 with the groups m of the match
AddMatched(files, m, name) ==
  IF m.err # ""
  THEN [err |-> m.err, files |-> files]
  ELSE [err |-> "", files |-> PutTestFile(files, m, name)]

\* lines 205-215 for a name that matched: err is the exception raised on
\* the way, or ""
AddTestFile(files, name) == AddMatched(files, MatchGroups(name), name)

\* sorted(test_files.keys()) then sorted(test_files[group].keys())
BucketLess(a, b) ==
  \/ a[1] < b[1]
  \/ a[1] = b[1] /\ LexLess(a[2], b[2])

SortedBuckets(S) ==
  [k \in 1..Cardinality(S) |->
     CHOOSE b \in S : Cardinality({c \in S : BucketLess(c, b)}) = k - 1]

MaxGroup(files) ==
  CHOOSE g \in {b[1] : b \in DOMAIN files} :
    \A b \in DOMAIN files : b[1] <= g

\* len(str(max(test_files.keys())))
MaxGroupDigitLength(files) == Len(Str(MaxGroup(files)))

\* variant: the group index is not padded
CodenameUnpadded(group, test_in_group, width) == Str(group) \o test_in_group

\* f"{group:0{max_group_digit_length}}{test_in_group}"
Codename(group, test_in_group, width) ==
  FormatZero(group, width) \o test_in_group

\* variant: the label is the plain decimal index
GroupLabelPlain(i) == Str(i)

\* f"{i:03}"
GroupLabel(i) == FormatZero(i, 3)

\* [[points_per_group[i], f"{i:03}"] for i in range(len(points_per_group))]
ScoreTypeParameters(m) ==
  [k \in 1..Cardinality(DOMAIN m) |-> <<m[k - 1], GroupLabel(k - 1)>>]

\* ------------------------------------------------------------------
\* Inputs: point files and test archives
\* ------------------------------------------------------------------

Line_0_0_100 == <<"0", "-", "0", " ", "1", "0", "0">>

Line_1_1_0 == <<"1", "-", "1", " ", "0">>

Line_0_1_30 == <<"0", "-", "1", " ", "3", "0">>

Line_2_2_70 == <<"2", "-", "2", " ", "7", "0">>

Line_2_2_40 == <<"2", "-", "2", " ", "4", "0">>

Line_0_1_50 == <<"0", "-", "1", " ", "5", "0">>

Line_1_2_50 == <<"1", "-", "2", " ", "5", "0">>

Line_3_5_10 == <<"3", "-", "5", " ", "1", "0">>

Line_5_10 == <<"5", " ", "1", "0">>

Line_5_10_20 == <<"5", " ", "1", "0", " ", "2", "0">>

Line_2_2_0 == <<"2", "-", "2", " ", "0">>

Line_Comment == <<"0", "-", "0", " ", "1", "0", "0", " ", "e", "a", "s", "y">>

Line_Empty == <<>>

Line_BadPoints == <<"1", "-", "1", " ", "x">>

\* `0-0 100` with form feeds between the fields
Line_FormFeed == <<"0", "\f", "0", "\f", "1", "0", "0">>

\* `0-0 100` in Arabic-Indic digits
Line_ArabicIndic ==
  <<"U+0660", "-", "U+0660", " ", "U+0661", "U+0660", "U+0660">>

\* `1-1 0` with an ideographic space before the points, a fullwidth zero
Line_Fullwidth == <<"1", "-", "1", "U+3000", "U+FF10">>

\* lines of the point files tried against parse_point_file alone
PointLines ==
  {Line_0_0_100,
   Line_1_1_0,
   Line_0_1_30,
   Line_2_2_70,
   Line_2_2_40,
   Line_0_1_50,
   Line_1_2_50,
   Line_3_5_10,
   Line_5_10,
   Line_5_10_20,
   Line_2_2_0,
   Line_Comment,
   Line_Empty,
   Line_BadPoints,
   Line_FormFeed,
   Line_ArabicIndic,
   Line_Fullwidth}

\* lines of the point files tried in whole imports
ImportLines == {Line_0_0_100, Line_1_1_0}

Name_In0 == <<"t", ".", "i", "0">>

Name_Out0 == <<"t", ".", "o", "0">>

Name_In1 == <<"t", ".", "i", "1">>

\* the group index is the Arabic-Indic digit one
Name_Out1 == <<"t", ".", "o", "U+0661">>

\* the name ends with a newline
Name_OtherIn0 == <<"u", ".", "i", "0", "\n">>

Name_Nested == <<"d", "i", "r", "/", "1", ".", "i", "0", "1">>

Name_Readme == <<"r", "e", "a", "d", "m", "e", ".", "t", "x", "t">>

\* n zeros
Zeros(n) == [k \in 1..n |-> "0"]

\* `0-0 100` with the points written in n digits
Line_LongPoints(n) ==
  <<"0", "-", "0", " ">> \o Zeros(n - 3) \o <<"1", "0", "0">>

\* a member of group 0 whose index is written as n zeros
LongName(dir, n) == <<"t", ".", dir>> \o Zeros(n)

\* the lengths at the digit limit of int() and just beyond it
LongSizes == {MaxStrDigits, MaxStrDigits + 1}

\* an archive member: its name and whether its content decodes as ASCII
Member(name, ascii) == [name |-> name, ascii |-> ascii]

\* an output of group 0 whose content is not ASCII
Name_BinOut0 == <<"b", ".", "o", "0">>

MemberPool ==
  {Member(Name_In0, TRUE), Member(Name_Out0, TRUE),
   Member(Name_In1, TRUE), Member(Name_Out1, TRUE),
   Member(Name_OtherIn0, TRUE), Member(Name_Nested, TRUE),
   Member(Name_Readme, TRUE),
   Member(Name_BinOut0, FALSE)}

MaxLines == 2

MaxMembers == 3

SeqsUpTo(S, n) == UNION {[1..k -> S] : k \in 0..n}

Distinct(q) == \A i, j \in 1..Len(q) : i # j => q[i] # q[j]

PointFiles ==
  SeqsUpTo(PointLines, MaxLines)
    \cup {<<Line_LongPoints(n)>> : n \in LongSizes}

SmallArchives == {a \in SeqsUpTo(MemberPool, MaxMembers) : Distinct(a)}

\* a point file giving 100 points to group 0 and 0 to groups 1..n-1
DensePointFile(n) ==
  <<Line_0_0_100, <<"1", "-">> \o Str(n - 1) \o <<" ", "0">> >>

FullMember(dir, g, lbl) ==
  Member(<<"t", ".", dir>> \o Str(g) \o lbl, TRUE)

\* complete tests for the groups 0..n-1, outputs before inputs, listed
\* from the last group down; group 3 has the two tests "b" and "a"
FullArchive(n) ==
  [i \in 1..(2 * n) |->
     LET g == (n - 1) - ((i - 1) \div 2)
     IN FullMember(IF i % 2 = 1 THEN "o" ELSE "i", g,
                   IF g = 3 THEN <<"b">> ELSE <<>>)]
    \o (IF n > 3
        THEN <<FullMember("i", 3, <<"a">>), FullMember("o", 3, <<"a">>)>>
        ELSE <<>>)

FullSizes == {3, 4, 13, 151}

LargePointFiles ==
  {<<Line_0_1_30, Line_2_2_70>>, <<Line_0_1_30, Line_2_2_40>>}
    \cup {DensePointFile(n) : n \in FullSizes \ {3}}

ImportPointFiles == SeqsUpTo(ImportLines, MaxLines) \cup LargePointFiles

\* a complete test of group 0 with long names, and a long name listed
\* before a nested one
LongArchives ==
  {<<Member(LongName("i", n), TRUE), Member(LongName("o", n), TRUE)>> :
     n \in LongSizes}
    \cup {<<Member(LongName("i", MaxStrDigits + 1), TRUE),
            Member(Name_Nested, TRUE)>>}

ImportArchives == SmallArchives \cup {FullArchive(n) : n \in FullSizes}

\* configuration values that get_task reads before the point file
KnownScoreModes ==
  {"SCORE_MODE_MAX", "SCORE_MODE_MAX_SUBTASK", "SCORE_MODE_MAX_TOKENED_LAST"}

\* task.yaml: keys holds the keys the file has; the value of a key the
\* file lacks is never read.  time_limit is "number" for a YAML number and
\* "text" for a string that spells no number; checker is what g++ does
\* with the checker source.
MinimalConf ==
  [keys |-> {"name", "title"},
   statements |-> <<>>,
   score_mode |-> "",
   time_limit |-> "",
   checker |-> "",
   public_groups |-> <<>>]

Statement_lv == [path |-> <<"s", "t", ".", "p", "d", "f">>, lang |-> <<"l", "v">>]

RichConf ==
  [keys |-> {"name", "title", "statements", "score_mode", "time_limit",
             "checker", "public_groups"},
   statements |-> <<Statement_lv>>,
   score_mode |-> "SCORE_MODE_MAX",
   time_limit |-> "number",
   checker |-> "compiles",
   public_groups |-> <<2>>]

Confs ==
  {MinimalConf,
   RichConf,
   [RichConf EXCEPT !.score_mode = "SCORE_MODE_MAX_SUBTASK",
                    !.keys = @ \ {"checker"}, !.public_groups = <<>>],
   [MinimalConf EXCEPT !.keys = {"name"}],
   [MinimalConf EXCEPT !.keys = {"title"}],
   [RichConf EXCEPT !.score_mode = "unknown"],
   [RichConf EXCEPT !.time_limit = "text"],
   [RichConf EXCEPT !.checker = "fails"]}

\* the calls of get_task tried: a configuration and the argument
\* (statements are asked for with the configurations that have a checker)
Calls ==
  {[conf |-> c, get_statement |-> "checker" \in c.keys] : c \in Confs}

\* ------------------------------------------------------------------
\* get_task as a state machine
\* ------------------------------------------------------------------

VARIABLES
  pc,                      \* position in get_task
  conf,                    \* self.conf, loaded by __init__
  get_statement,           \* the argument of get_task
  point_file,              \* lines of the point file
  zip,                     \* members of the test archive, in archive order
  score_mode,              \* args['score_mode'] of the Task
  evaluation_param,        \* "diff" or "comparator"
  points_per_group,        \* dictionary built by parse_point_file
  score_type_parameters,   \* args["score_type_parameters"]
  tests_per_group,         \* list of counters, indexed by group
  test_files,              \* (group, test_in_group) -> input/output names
  scanned,                 \* members of zip.namelist() already classified
  max_group_digit_length,
  order,                   \* buckets in extraction order
  extracted,               \* buckets of order already taken
  testcases,               \* args["testcases"]: codename -> Testcase
  store,                   \* descriptions of the blobs put in the file cacher
  err,                     \* the exception that ended get_task, "" if none
  raised_in,               \* the position where it was raised, "" if none
  err_group,               \* the group named by the exception, -1 if none
  active_dataset           \* task.active_dataset

vars ==
  <<pc, conf, get_statement, raised_in, point_file, zip, score_mode, evaluation_param, points_per_group,
    score_type_parameters, tests_per_group, test_files, scanned,
    max_group_digit_length, order, extracted, testcases, store, err,
    err_group, active_dataset>>

NoDataset == [present |-> FALSE]

EmptyTestcases ==
  [c \in {} |-> [codename |-> <<>>, public |-> FALSE,
                 input |-> <<>>, output |-> <<>>]]

InitLocals ==
  /\ score_mode = ""
  /\ evaluation_param = ""
  /\ points_per_group = EmptyMap
  /\ score_type_parameters = <<>>
  /\ tests_per_group = EmptyMap
  /\ test_files = EmptyFiles
  /\ scanned = 0
  /\ max_group_digit_length = 0
  /\ order = <<>>
  /\ extracted = 0
  /\ testcases = EmptyTestcases
  /\ store = <<>>
  /\ err = ""
  /\ raised_in = ""
  /\ err_group = -1
  /\ active_dataset = NoDataset

Init ==
  /\ pc = "config"
  /\ \E k \in Calls : conf = k.conf /\ get_statement = k.get_statement
  /\ \/ point_file \in ImportPointFiles /\ zip \in ImportArchives
     \/ point_file = <<Line_0_0_100>> /\ zip \in LongArchives
  /\ InitLocals

\* raise: get_task ends with exception e and nothing else changes
Raise(e) == pc' = "failed" /\ err' = e /\ raised_in' = pc

\* self.conf.get(key, default)
ConfGet(key, default) == IF key \in conf.keys THEN conf[key] ELSE default

\* the blobs put in the file cacher, by their descriptions
StatementBlob(lang) == [kind |-> "Statement", file |-> lang]

CheckerBlob == [kind |-> "Checker", file |-> <<>>]

InputBlob(name) == [kind |-> "Input", file |-> name]

OutputBlob(name) == [kind |-> "Output", file |-> name]

\* lines 106-117: the statements are uploaded only when asked for
StatementBlobs ==
  IF get_statement
  THEN LET st == ConfGet("statements", <<>>)
       IN [k \in 1..Len(st) |-> StatementBlob(st[k].lang)]
  ELSE <<>>

\* line 188
PublicGroups ==
  LET l == ConfGet("public_groups", <<0, 1>>)
  IN {l[k] : k \in 1..Len(l)}

\* zip.namelist()
NameList == [i \in 1..Len(zip) |-> zip[i].name]

\* zip.open(name): the content of the member called name is ASCII
ContentIsAscii(name) ==
  LET i == CHOOSE k \in 1..Len(zip) :
             /\ zip[k].name = name
             /\ \A k2 \in (k + 1)..Len(zip) : zip[k2].name # name
  IN zip[i].ascii

\* lines 98-175: name and title, statements, score mode, time limit,
\* optional checker compilation
LoadConfig ==
  /\ pc = "config"
  /\ LET mode == ConfGet("score_mode", "SCORE_MODE_MAX_TOKENED_LAST")
         limit == ConfGet("time_limit", "number")
     IN
       IF ~({"name", "title"} \subseteq conf.keys)
       THEN /\ Raise("KeyError")
            /\ UNCHANGED <<score_mode, evaluation_param, store>>
       ELSE IF mode \notin KnownScoreModes
       THEN /\ Raise("UnknownScoreMode")
            /\ store' = store \o StatementBlobs
            /\ UNCHANGED <<score_mode, evaluation_param>>
       ELSE IF limit # "number"
       THEN /\ Raise("ValueError")
            /\ score_mode' = mode
            /\ store' = store \o StatementBlobs
            /\ UNCHANGED evaluation_param
       ELSE IF "checker" \in conf.keys /\ conf.checker = "fails"
       THEN /\ Raise("CheckerCompile")
            /\ score_mode' = mode
            /\ store' = store \o StatementBlobs
            /\ UNCHANGED evaluation_param
       ELSE /\ pc' = "points"
            /\ score_mode' = mode
            /\ evaluation_param' =
                 IF "checker" \in conf.keys THEN "comparator" ELSE "diff"
            /\ store' =
                 IF "checker" \in conf.keys
                 THEN Append(store \o StatementBlobs, CheckerBlob)
                 ELSE store \o StatementBlobs
            /\ UNCHANGED <<err, raised_in>>
  /\ UNCHANGED <<conf, get_statement, point_file, zip, points_per_group,
                 score_type_parameters,
                 tests_per_group, test_files, scanned,
                 max_group_digit_length, order, extracted, testcases,
                 err_group, active_dataset>>

\* lines 177-191: parse the point file, build the scoring parameters and
\* the per-group counters
ParsePoints ==
  /\ pc = "points"
  /\ LET r == ParsePointFile(point_file) IN
       /\ points_per_group' = r.map
       /\ IF r.err # ""
          THEN /\ Raise(r.err)
               /\ UNCHANGED <<score_type_parameters, tests_per_group>>
          ELSE /\ pc' = "scan"
               /\ score_type_parameters' = ScoreTypeParameters(r.map)
               /\ tests_per_group' =
                    [g \in 0..(Cardinality(DOMAIN r.map) - 1) |-> 0]
               /\ UNCHANGED <<err, raised_in>>
  /\ UNCHANGED <<conf, get_statement, point_file, zip, score_mode, evaluation_param, test_files,
                 scanned, max_group_digit_length, order, extracted,
                 testcases, store, err_group, active_dataset>>

\* lines 198-215: one iteration of the loop over zip.namelist()
ScanMember ==
  /\ pc = "scan"
  /\ scanned < Len(zip)
  /\ LET name == NameList[scanned + 1] IN
       IF HasSeparator(name)
       THEN /\ Raise("ArchiveDirectory")
            /\ UNCHANGED <<test_files, scanned>>
       ELSE IF ~Matches(name)
       THEN /\ Raise("UnsupportedFile")
            /\ UNCHANGED <<test_files, scanned>>
       ELSE \E r \in {AddTestFile(test_files, name)} :
            IF r.err # ""
            THEN /\ Raise(r.err)
                 /\ UNCHANGED <<test_files, scanned>>
            ELSE /\ test_files' = r.files
                 /\ scanned' = scanned + 1
                 /\ UNCHANGED <<pc, err, raised_in>>
  /\ UNCHANGED <<conf, get_statement, point_file, zip, score_mode, evaluation_param,
                 points_per_group, score_type_parameters, tests_per_group,
                 max_group_digit_length, order, extracted, testcases, store,
                 err_group, active_dataset>>

\* lines 218-219: the width of the codenames and the extraction order;
\* max() of an empty dictionary raises ValueError
BeginExtract ==
  /\ pc = "scan"
  /\ scanned = Len(zip)
  /\ IF DOMAIN test_files = {}
     THEN /\ Raise("ValueError")
          /\ UNCHANGED <<max_group_digit_length, order>>
     ELSE /\ pc' = "extract"
          /\ max_group_digit_length' = MaxGroupDigitLength(test_files)
          /\ order' = SortedBuckets(DOMAIN test_files)
          /\ UNCHANGED <<err, raised_in>>
  /\ UNCHANGED <<conf, get_statement, point_file, zip, score_mode, evaluation_param,
                 points_per_group, score_type_parameters, tests_per_group,
                 test_files, scanned, extracted, testcases, store,
                 err_group, active_dataset>>

\* args["testcases"][codename] = Testcase(...)
PutTestcase(cases, codename, group, in_name, out_name) ==
  [c \in (DOMAIN cases) \cup {codename} |->
     IF c = codename
     THEN [codename |-> codename, public |-> group \in PublicGroups,
           input |-> in_name, output |-> out_name]
     ELSE cases[c]]

\* lines 220-237: one iteration of the loop over the sorted buckets
ExtractTest ==
  /\ pc = "extract"
  /\ extracted < Len(order)
  /\ LET group == order[extracted + 1][1]
         test_in_group == order[extracted + 1][2]
         testcase == test_files[order[extracted + 1]]
         codename == Codename(group, test_in_group, max_group_digit_length)
     IN
       IF group \notin DOMAIN tests_per_group
       THEN /\ Raise("IndexError")
            /\ UNCHANGED <<tests_per_group, extracted, testcases, store>>
       ELSE
         /\ tests_per_group' =
              [tests_per_group EXCEPT ![group] = @ + 1]
         /\ IF testcase.input = NoFile \/ testcase.output = NoFile
            THEN /\ Raise("IncompleteTest")
                 /\ UNCHANGED <<extracted, testcases, store>>
            ELSE IF ~ContentIsAscii(testcase.input)
            THEN /\ Raise("UnicodeDecodeError")
                 /\ UNCHANGED <<extracted, testcases, store>>
            ELSE IF ~ContentIsAscii(testcase.output)
            THEN /\ Raise("UnicodeDecodeError")
                 /\ store' = Append(store, InputBlob(testcase.input))
                 /\ UNCHANGED <<extracted, testcases>>
            ELSE /\ store' =
                      Append(Append(store, InputBlob(testcase.input)),
                             OutputBlob(testcase.output))
                 /\ testcases' =
                      PutTestcase(testcases, codename, group,
                                  testcase.input, testcase.output)
                 /\ extracted' = extracted + 1
                 /\ UNCHANGED <<pc, err, raised_in>>
  /\ UNCHANGED <<conf, get_statement, point_file, zip, score_mode, evaluation_param,
                 points_per_group, score_type_parameters, test_files,
                 scanned, max_group_digit_length, order, err_group,
                 active_dataset>>

\* the first group without tests, in the order of the loop of line 239
FirstEmptyGroup(counts) ==
  CHOOSE i \in DOMAIN counts :
    /\ counts[i] = 0
    /\ \A j \in DOMAIN counts : j < i => counts[j] # 0

\* variant: the dataset is attached without looking at the counters
FinishTaskUnchecked ==
  /\ pc = "extract"
  /\ extracted = Len(order)
  /\ pc' = "done"
  /\ active_dataset' =
       [present |-> TRUE,
        score_type_parameters |-> score_type_parameters,
        testcases |-> testcases]
  /\ UNCHANGED <<err, raised_in, err_group>>
  /\ UNCHANGED <<conf, get_statement, point_file, zip, score_mode, evaluation_param,
                 points_per_group, score_type_parameters, tests_per_group,
                 test_files, scanned, max_group_digit_length, order,
                 extracted, testcases, store>>

\* lines 239-246: every group has tests, then the dataset is attached
\* and the task returned
FinishTask ==
  /\ pc = "extract"
  /\ extracted = Len(order)
  /\ IF \E i \in DOMAIN tests_per_group : tests_per_group[i] = 0
     THEN /\ Raise("NoTestcases")
          /\ err_group' = FirstEmptyGroup(tests_per_group)
          /\ UNCHANGED active_dataset
     ELSE /\ pc' = "done"
          /\ active_dataset' =
               [present |-> TRUE,
                score_type_parameters |-> score_type_parameters,
                testcases |-> testcases]
          /\ UNCHANGED <<err, raised_in, err_group>>
  /\ UNCHANGED <<conf, get_statement, point_file, zip, score_mode, evaluation_param,
                 points_per_group, score_type_parameters, tests_per_group,
                 test_files, scanned, max_group_digit_length, order,
                 extracted, testcases, store>>

Next ==
  \/ LoadConfig
  \/ ParsePoints
  \/ ScanMember
  \/ BeginExtract
  \/ ExtractTest
  \/ FinishTask

Spec == Init /\ [][Next]_vars

\* parse_point_file alone, over a wider choice of point files
InitPoints ==
  /\ pc = "points"
  /\ conf = MinimalConf
  /\ get_statement = FALSE
  /\ point_file \in PointFiles
  /\ zip = <<>>
  /\ InitLocals

NextPoints == ParsePoints

SpecPoints == InitPoints /\ [][NextPoints]_vars

TypeOK ==
  /\ pc \in {"config", "points", "scan", "extract", "done", "failed"}
  /\ scanned \in 0..Len(zip)
  /\ extracted \in 0..Len(order)
  /\ (pc = "failed") <=> (err # "")

\* ------------------------------------------------------------------
\* Properties of parse_point_file (checked under SpecPoints)
\* ------------------------------------------------------------------

\* total of a dictionary's values, by removing one key at a time
RECURSIVE TotalOf(_)
TotalOf(m) ==
  IF DOMAIN m = {} THEN 0
  ELSE LET g == CHOOSE x \in DOMAIN m : TRUE
       IN m[g] + TotalOf([x \in (DOMAIN m) \ {g} |-> m[x]])

IsDense(m) == DOMAIN m = 0..(Cardinality(DOMAIN m) - 1)

LineErrors == {"IndexError", "ValueError", "DuplicatedGroups"}

\* C1: whenever parse_point_file returns, the keys of the mapping are
\* exactly 0..N-1 and the values sum to 100; when every line was read
\* without error and the groups assigned have a gap, do not start at 0
\* or do not sum to 100, it raises instead of returning.
C1_DenseAndHundred ==
  /\ pc = "scan" =>
       /\ IsDense(points_per_group)
       /\ TotalOf(points_per_group) = 100
  /\ (pc = "failed" /\ err \notin LineErrors) =>
       /\ ~(IsDense(points_per_group) /\ TotalOf(points_per_group) = 100)
       /\ err = (IF IsDense(points_per_group)
                 THEN "PointSum" ELSE "MissingGroup")

C1_Witness ==
  /\ pc = "scan"
  /\ point_file = <<Line_2_2_40, Line_0_1_30>>
  /\ points_per_group = (0 :> 30) @@ (1 :> 30) @@ (2 :> 40)

\* what the lines of PointLines are written to mean: the inclusive
\* range of groups and the points of each group
RangeLines ==
  {Line_0_0_100, Line_1_1_0, Line_0_1_30, Line_2_2_70, Line_2_2_40,
   Line_0_1_50, Line_1_2_50, Line_3_5_10, Line_2_2_0, Line_Comment,
   Line_FormFeed, Line_ArabicIndic, Line_Fullwidth,
   Line_LongPoints(MaxStrDigits)}

SingleLines == {Line_5_10}

Meaning(line) ==
  CASE line = Line_0_0_100 -> [low |-> 0, high |-> 0, points |-> 100]
    [] line = Line_1_1_0 -> [low |-> 1, high |-> 1, points |-> 0]
    [] line = Line_0_1_30 -> [low |-> 0, high |-> 1, points |-> 30]
    [] line = Line_2_2_70 -> [low |-> 2, high |-> 2, points |-> 70]
    [] line = Line_2_2_40 -> [low |-> 2, high |-> 2, points |-> 40]
    [] line = Line_0_1_50 -> [low |-> 0, high |-> 1, points |-> 50]
    [] line = Line_1_2_50 -> [low |-> 1, high |-> 2, points |-> 50]
    [] line = Line_3_5_10 -> [low |-> 3, high |-> 5, points |-> 10]
    [] line = Line_2_2_0 -> [low |-> 2, high |-> 2, points |-> 0]
    [] line = Line_Comment -> [low |-> 0, high |-> 0, points |-> 100]
    [] line = Line_5_10 -> [low |-> 5, high |-> 5, points |-> 10]
    [] line = Line_FormFeed -> [low |-> 0, high |-> 0, points |-> 100]
    [] line = Line_ArabicIndic -> [low |-> 0, high |-> 0, points |-> 100]
    [] line = Line_Fullwidth -> [low |-> 1, high |-> 1, points |-> 0]
    [] line = Line_LongPoints(MaxStrDigits) ->
         [low |-> 0, high |-> 0, points |-> 100]

GroupsOf(line) == Meaning(line).low..Meaning(line).high

\* the first k lines are written to assign disjoint sets of groups
DisjointUpTo(k) ==
  /\ \A i \in 1..k : point_file[i] \in SingleLines \cup RangeLines
  /\ \A i, j \in 1..k :
       i # j => GroupsOf(point_file[i]) \cap GroupsOf(point_file[j]) = {}

\* the lines before position k are range lines with disjoint ranges
CleanBefore(k) ==
  /\ \A i \in 1..(k - 1) : point_file[i] \in RangeLines
  /\ DisjointUpTo(k - 1)

\* the assignment meant by the first k lines
MeantBy(k) ==
  [g \in UNION {GroupsOf(point_file[i]) : i \in 1..k} |->
     Meaning(point_file[CHOOSE i \in 1..k :
                          g \in GroupsOf(point_file[i])]).points]

\* C3 as stated: a single-group line `<group> <points>` assigns the
\* points to exactly that group, as a range line does for its range.
C3_SingleLikeRange ==
  (/\ pc # "points"
   /\ DisjointUpTo(Len(point_file)))
    => /\ err \notin LineErrors
       /\ points_per_group = MeantBy(Len(point_file))

\* C3 amended: a range line `<low>-<high> <points>` assigns the points to
\* every group of [low, high] and to no other group; a single-group line
\* `<group> <points>` with no third field raises IndexError and assigns
\* nothing.
C3_RangeOnly ==
  /\ (/\ pc # "points"
      /\ \A i \in 1..Len(point_file) : point_file[i] \in RangeLines
      /\ CleanBefore(Len(point_file) + 1))
       => /\ err \notin LineErrors
          /\ points_per_group = MeantBy(Len(point_file))
  /\ \A k \in 1..Len(point_file) :
       (/\ pc # "points"
        /\ point_file[k] \in SingleLines
        /\ CleanBefore(k))
         => /\ pc = "failed"
            /\ err = "IndexError"
            /\ points_per_group = MeantBy(k - 1)

C3_Witness ==
  /\ pc = "failed"
  /\ err = "IndexError"
  /\ point_file = <<Line_3_5_10, Line_5_10>>
  /\ points_per_group = (3 :> 10) @@ (4 :> 10) @@ (5 :> 10)

\* ------------------------------------------------------------------
\* Properties of get_task (checked under Spec)
\* ------------------------------------------------------------------

\* the point file was parsed and its mapping returned
Parsed == DOMAIN tests_per_group # {}

NumGroups == Cardinality(DOMAIN points_per_group)

Terminal == pc \in {"done", "failed"}

IsSeparatorChar(c) == c = "/" \/ c = "\\"

\* the name holds a directory part
IsNestedName(name) == SelectSeq(name, IsSeparatorChar) # <<>>

\* the archive as its author wrote it, read off the member names
ArchiveFlat == \A i \in 1..Len(zip) : ~IsNestedName(zip[i].name)

ArchiveMatches == \A i \in 1..Len(zip) : Matches(zip[i].name)

BucketOf(name) ==
  <<MatchGroups(name).group, MatchGroups(name).test_in_group>>

ArchiveBuckets == {BucketOf(zip[i].name) : i \in 1..Len(zip)}

ArchiveGroups == {b[1] : b \in ArchiveBuckets}

InputsOf(b) ==
  {i \in 1..Len(zip) :
     BucketOf(zip[i].name) = b /\ MatchGroups(zip[i].name).is_input}

OutputsOf(b) ==
  {i \in 1..Len(zip) :
     BucketOf(zip[i].name) = b /\ ~MatchGroups(zip[i].name).is_input}

ArchiveComplete ==
  \A b \in ArchiveBuckets : InputsOf(b) # {} /\ OutputsOf(b) # {}

ArchiveAscii == \A i \in 1..Len(zip) : zip[i].ascii

WellFormedArchive ==
  /\ ArchiveFlat
  /\ ArchiveMatches
  /\ ArchiveComplete
  /\ ArchiveAscii

\* the blobs of archive members in the store
MemberBlobs == {k \in 1..Len(store) : store[k].kind \in {"Input", "Output"}}

\* decimal digits of g in a field of w characters, by arithmetic
RECURSIVE Pow10(_)
Pow10(k) == IF k = 0 THEN 1 ELSE 10 * Pow10(k - 1)

DigitsOf(g, w) ==
  [k \in 1..w |-> DigitChars[((g \div Pow10(w - k)) % 10) + 1]]

WidthOf(n) ==
  IF n < 10 THEN 1 ELSE IF n < 100 THEN 2 ELSE IF n < 1000 THEN 3 ELSE 4

\* C2 as stated: with a valid PointMap of size N and an archive of
\* complete, well-named tests, a group of 0..N-1 without tests (also
\* when the archive has no members) makes the import fail with "No
\* testcases for group g" for a group g that has no tests.
C2_EmptyGroupError ==
  (/\ Parsed
   /\ Terminal
   /\ WellFormedArchive
   /\ \E g \in 0..(NumGroups - 1) : g \notin ArchiveGroups)
    => /\ pc = "failed"
       /\ err = "NoTestcases"
       /\ err_group \in (0..(NumGroups - 1)) \ ArchiveGroups

\* C4 as stated: the point file `0-1 30`, `2-2 70` with complete tests
\* for groups 0, 1, 2 imports with scoring parameters
\* [[30,"0"],[30,"1"],[70,"2"]].
C4_ExampleAsStated ==
  (/\ point_file = <<Line_0_1_30, Line_2_2_70>>
   /\ zip = FullArchive(3)
   /\ Terminal
   /\ raised_in # "config")
    => /\ pc = "done"
       /\ active_dataset.score_type_parameters =
            << <<30, <<"0">> >>, <<30, <<"1">> >>, <<70, <<"2">> >> >>

\* C4 amended: the point file `0-1 30`, `2-2 70` sums to 130 and is
\* rejected with the point-sum error; the point file `0-1 30`, `2-2 40`
\* with complete tests for groups 0, 1, 2 imports with scoring parameters
\* [[30,"000"],[30,"001"],[40,"002"]]; in general the parameters are one
\* [points, label] entry per group of the PointMap, in ascending group
\* order, with the group's points and its index padded to three digits.
C4_ScoringParameters ==
  /\ (/\ point_file = <<Line_0_1_30, Line_2_2_70>>
      /\ Terminal
      /\ raised_in # "config")
       => pc = "failed" /\ err = "PointSum"
  /\ (/\ point_file = <<Line_0_1_30, Line_2_2_40>>
      /\ zip = FullArchive(3)
      /\ Terminal
      /\ raised_in # "config")
       => /\ pc = "done"
          /\ active_dataset.score_type_parameters =
               << <<30, <<"0", "0", "0">> >>,
                  <<30, <<"0", "0", "1">> >>,
                  <<40, <<"0", "0", "2">> >> >>
  /\ pc = "done" =>
       /\ Len(active_dataset.score_type_parameters) = NumGroups
       /\ \A g \in DOMAIN points_per_group :
            active_dataset.score_type_parameters[g + 1] =
              <<points_per_group[g], DigitsOf(g, 3)>>

C4_Witness ==
  /\ pc = "done"
  /\ point_file = <<Line_0_1_30, Line_2_2_40>>
  /\ zip = FullArchive(3)
  /\ Len(active_dataset.score_type_parameters) = 3

\* C5: in a successful import the codename of the test of every (group,
\* sub-index) bucket is the group index padded with zeros to the number
\* of digits of the largest group index, followed by the sub-index; the
\* largest index is the same in the archive and in the PointMap; the
\* dataset has exactly one testcase per bucket.
C5_Codenames ==
  pc = "done" =>
    /\ \A g \in ArchiveGroups : g <= NumGroups - 1
    /\ NumGroups - 1 \in ArchiveGroups
    /\ \A b \in ArchiveBuckets :
         LET c == DigitsOf(b[1], WidthOf(NumGroups - 1)) \o b[2] IN
           /\ c \in DOMAIN active_dataset.testcases
           /\ active_dataset.testcases[c].codename = c
           /\ \E i \in InputsOf(b) :
                active_dataset.testcases[c].input = zip[i].name
           /\ \E i \in OutputsOf(b) :
                active_dataset.testcases[c].output = zip[i].name
    /\ Cardinality(DOMAIN active_dataset.testcases) =
         Cardinality(ArchiveBuckets)
    /\ (NumGroups = 13 /\ <<3, <<"b">> >> \in ArchiveBuckets)
         => <<"0", "3", "b">> \in DOMAIN active_dataset.testcases
    /\ (NumGroups = 151 /\ <<3, <<"b">> >> \in ArchiveBuckets)
         => <<"0", "0", "3", "b">> \in DOMAIN active_dataset.testcases

C5_Witness ==
  /\ pc = "done"
  /\ NumGroups = 13
  /\ <<"0", "3", "b">> \in DOMAIN active_dataset.testcases
  /\ <<"1", "2">> \in DOMAIN active_dataset.testcases

\* the scanning loop applied to a whole list of names
RECURSIVE ScanAll(_, _, _)
ScanAll(files, names, i) ==
  IF i > Len(names) THEN files
  ELSE ScanAll(AddTestFile(files, names[i]).files, names, i + 1)

\* C6 as stated: when every member name is flat and matches the pattern
\* and every bucket has an input and an output member, the matching and
\* extraction of lines 196-237 do not fail, every member is the input or
\* the output of exactly one test of its own bucket, and the collection
\* is the same for every order of the members.
C6_MatcherComplete ==
  (/\ Parsed
   /\ WellFormedArchive)
    => /\ pc # "failed"
       /\ (pc \in {"extract", "done"}) =>
            /\ \A i \in 1..Len(zip) :
                 LET b == BucketOf(zip[i].name) IN
                   /\ b \in DOMAIN test_files
                   /\ IF MatchGroups(zip[i].name).is_input
                      THEN test_files[b].input = zip[i].name
                      ELSE test_files[b].output = zip[i].name
            /\ \A b \in DOMAIN test_files :
                 /\ test_files[b].input # NoFile
                 /\ test_files[b].output # NoFile
            /\ Len(zip) <= MaxMembers + 1 =>
                 \A q \in Permutations(1..Len(zip)) :
                   ScanAll(EmptyFiles,
                           [k \in 1..Len(zip) |-> zip[q[k]].name], 1)
                     = test_files

\* C7 as stated: an archive with a member name containing a path
\* separator makes the import fail with "Test zip archive contains a
\* directory", whatever the other names and wherever it stands, and no
\* member is uploaded before.
C7_AlwaysDirectoryError ==
  (/\ Parsed
   /\ Terminal
   /\ ~ArchiveFlat)
    => /\ pc = "failed"
       /\ err = "ArchiveDirectory"
       /\ MemberBlobs = {}

FirstNested ==
  CHOOSE i \in 1..Len(zip) :
    /\ IsNestedName(zip[i].name)
    /\ \A j \in 1..(i - 1) : ~IsNestedName(zip[j].name)

\* the group index of a matching name is one int() reads
Readable(name) == MatchGroups(name).err = ""

\* members listed before the first nested name that the scan rejects
RejectedBeforeNested ==
  {j \in 1..(FirstNested - 1) :
     ~Matches(zip[j].name) \/ ~Readable(zip[j].name)}

\* C7 amended: an archive with a member name containing a path separator
\* always makes the import fail before any member is read or uploaded;
\* the failure is the archive-structure error exactly when every member
\* listed before the first such name matches the naming pattern with a
\* group index of at most 4300 digits; otherwise it is the error of the
\* first member that does not: the unsupported-file error for a name
\* that does not match, ValueError for a group index of more digits.
C7_DirectoryOrUnsupported ==
  (/\ Parsed
   /\ Terminal
   /\ ~ArchiveFlat)
    => /\ pc = "failed"
       /\ MemberBlobs = {}
       /\ testcases = EmptyTestcases
       /\ IF RejectedBeforeNested = {}
          THEN err = "ArchiveDirectory" /\ scanned = FirstNested - 1
          ELSE LET j == KthOf(RejectedBeforeNested, 1) IN
                 /\ scanned = j - 1
                 /\ err = (IF Matches(zip[j].name)
                           THEN "ValueError" ELSE "UnsupportedFile")

C7_Witness ==
  /\ pc = "failed"
  /\ err = "ArchiveDirectory"
  /\ Len(zip) = 3
  /\ scanned = 2
  /\ zip[3].name = Name_Nested

\* store grows at its end only
IsPrefix(a, b) == Len(a) <= Len(b) /\ SubSeq(b, 1, Len(a)) = a

C8_State ==
  /\ active_dataset.present <=> pc = "done"
  /\ active_dataset.present =>
       /\ err = ""
       /\ IsDense(points_per_group)
       /\ TotalOf(points_per_group) = 100
       /\ ArchiveFlat
       /\ ArchiveMatches
       /\ \A i \in 1..Len(zip) : MatchGroups(zip[i].name).err = ""
       /\ ArchiveComplete
       /\ \A g \in 0..(NumGroups - 1) : g \in ArchiveGroups
       /\ scanned = Len(zip)
       /\ extracted = Len(order)
  /\ pc = "failed" => err # "" /\ ~active_dataset.present

C8_Step ==
  /\ IsPrefix(store, store')
  /\ pc = "failed" =>
       /\ pc' = "failed"
       /\ err' = err
       /\ store' = store
       /\ active_dataset' = active_dataset

\* C8: the Dataset is attached to the task only after the point file was
\* parsed, every member passed the name checks, every bucket was found
\* complete and every group 0..N-1 has a test; once a stage fails the
\* run stays failed, returns no task and runs no later stage, and the
\* blobs already uploaded stay in the store.
C8_NeverCommittedOnFailure == []C8_State /\ [][C8_Step]_vars

C8_Witness ==
  /\ pc = "failed"
  /\ err = "IncompleteTest"
  /\ Cardinality(MemberBlobs) >= 2
  /\ \E k \in 1..Len(store) : store[k].kind = "Statement"
  /\ ~active_dataset.present

\* the group of a testcase of the dataset, found through its input file
GroupsOfCase(c) ==
  {b[1] : b \in {x \in DOMAIN test_files :
                   test_files[x].input = active_dataset.testcases[c].input}}

\* C9 as stated: in every assembled dataset each testcase's codename
\* starts with the label of its own group's scoring entry and with the
\* label of no other group.
C9_LabelsMatchCodenames ==
  pc = "done" =>
    \A c \in DOMAIN active_dataset.testcases :
      \A g \in 0..(NumGroups - 1) :
        StartsWith(c, active_dataset.score_type_parameters[g + 1][2])
          <=> g \in GroupsOfCase(c)

\* C10 as stated: a valid point file, complete tests for every group
\* 0..N-1 and, in addition, complete tests for a group index >= N: the
\* import is not rejected and produces a dataset.
C10_ExtraGroupsAccepted ==
  (/\ Parsed
   /\ Terminal
   /\ WellFormedArchive
   /\ \A g \in 0..(NumGroups - 1) : g \in ArchiveGroups
   /\ \E g \in ArchiveGroups : g >= NumGroups)
    => /\ pc = "done"
       /\ active_dataset.present

====
